---- MODULE Spec2Model ----
(***************************************************************************)
(* A model of src/models/xlmr.py: the feature builder                      *)
(* XLMRModel.convert_dataset_to_features (one pass over a corpus), and the *)
(* configuration dispatch of XLMRModel.__init__, forward and               *)
(* extract_features.                                                       *)
(*                                                                         *)
(* A text is a sequence of characters.  The tokenizer is an external       *)
(* service; it is modelled by a character-level tokenizer: every word      *)
(* character becomes one subtoken and white space becomes none, so that a  *)
(* slice of n characters can yield any number 0..n of subtokens, and a     *)
(* non-empty slice can yield none.  Sentences hold no literal special      *)
(* token ("<s>", "</s>", "<pad>", "<mask>"), spans are not empty, and the   *)
(* examples of one corpus are alike.                                       *)
(***************************************************************************)
EXTENDS Integers, Sequences, FiniteSets, TLC

VARIABLES
    local_config,      \* self.local_config
    examples,          \* self.data_processor.get_examples(source_dir)
    pc,                \* where convert_dataset_to_features stands
    ex_index,          \* outer loop index (0-based, as in the source)
    i,                 \* inner loop index: the orientation, 0 or 1
    orient,            \* (st1, end1, sent1, st2, end2, sent2) of the last loop header
    tokens,            \* the tokens assembled by the last loop body
    positions,         \* the position table of the last loop body
    outcome,           \* the branch the last loop body took
    features,          \* the records appended so far
    num_too_long_exs,  \* the "too long" counter
    net,               \* what __init__ built: input_size and syn_clf
    fwd                \* where forward / extract_features stands

vars == <<local_config, examples, pc, ex_index, i, orient, tokens, positions,
          outcome, features, num_too_long_exs, net, fwd>>

builderVars == <<examples, pc, ex_index, i, orient, tokens, positions,
                 outcome, features, num_too_long_exs>>

----------------------------------------------------------------------------
(* Bounds *)

\* max_seq_len ranges over 1..MaxSeqLen
MaxSeqLen == 6
\* a left, span or right slice of a sentence holds at most MaxTok word characters
MaxTok == 1
\* a corpus holds at most MaxExamples examples
MaxExamples == 1
\* config.hidden_size ranges over 1..MaxHidden
MaxHidden == 2
\* a batch holds 1..MaxBatch examples
MaxBatch == 2

----------------------------------------------------------------------------
(* The tokenizer adapter *)

cls_token == "<s>"
sep_token == "</s>"
pad_token == "<pad>"
mask_token == "<mask>"

Space == " "

\* the subtoken of one word character
Subtoken(c) == CASE c = "a" -> "_a"
                 [] c = "b" -> "_b"

RECURSIVE Tokenize(_)
\* tokenizer.tokenize(text): white space yields nothing
Tokenize(text) ==
    IF text = <<>> THEN <<>>
    ELSE IF Head(text) = Space THEN Tokenize(Tail(text))
         ELSE <<Subtoken(Head(text))>> \o Tokenize(Tail(text))

\* the vocabulary: token -> id
TokenId(t) == CASE t = cls_token -> 0
                [] t = pad_token -> 1
                [] t = sep_token -> 2
                [] t = "_a" -> 10
                [] t = "_b" -> 11
                [] t = mask_token -> 250001

\* tokenizer.convert_tokens_to_ids(tokens)
ConvertTokensToIds(ts) == [k \in 1..Len(ts) |-> TokenId(ts[k])]

----------------------------------------------------------------------------
(* Python helpers *)

\* s[a:b] for 0 <= a, b
Slice(s, a, b) ==
    LET hi == IF b > Len(s) THEN Len(s) ELSE b
    IN  IF a >= hi THEN <<>> ELSE SubSeq(s, a + 1, hi)

\* [x] * n
Repeat(x, n) == [k \in 1..(IF n > 0 THEN n ELSE 0) |-> x]

RECURSIVE MaxOf(_)
\* max(list) of a non-empty list
MaxOf(s) == IF Len(s) = 1 THEN s[1]
            ELSE LET m == MaxOf(Tail(s)) IN IF s[1] > m THEN s[1] ELSE m

\* syns_lab_to_pos[lab]: the 0-based index of lab in syns
SynsLabToPos(syns, lab) == (CHOOSE k \in 1..Len(syns) : syns[k] = lab) - 1

\* list with the 0-based slot k set to v
SetSlot(list, k, v) == [list EXCEPT ![k + 1] = v]

----------------------------------------------------------------------------
(* The loop body of convert_dataset_to_features, as functions *)

\* Orientations with the second orientation a repeat of the first
OrientationsNotSwapped(ex) ==
    << <<ex.start_1, ex.end_1, ex.text_1, ex.start_2, ex.end_2, ex.text_2>>,
       <<ex.start_1, ex.end_1, ex.text_1, ex.start_2, ex.end_2, ex.text_2>> >>

\* the two orientations of an example, in loop order
Orientations(ex) ==
    << <<ex.start_1, ex.end_1, ex.text_1, ex.start_2, ex.end_2, ex.text_2>>,
       <<ex.start_2, ex.end_2, ex.text_2, ex.start_1, ex.end_1, ex.text_1>> >>

\* the orientation is passed over
SkipsOrientation(cfg, k) == ~cfg.symmetric /\ k = 0

\* the subtokens of the text before a span
LeftTokens(left) == IF left # <<>> THEN Tokenize(left) ELSE <<>>

\* the tokens a span contributes
SpanTokens(cfg, target) ==
    IF cfg.mask_syns THEN Repeat(mask_token, Len(Tokenize(target)))
    ELSE Tokenize(target)

\* the tokens the text after a span contributes
RightTokens(right) == IF right # <<>> THEN Tokenize(right) \o <<sep_token>> ELSE <<>>

\* tokens and position table of one orientation, before conversion to ids
Assemble(cfg, o) ==
    LET st1 == o[1]  end1 == o[2]  sent1 == o[3]
        st2 == o[4]  end2 == o[5]  sent2 == o[6]
        tgt == SynsLabToPos(cfg.syns, "Target")
        syn == SynsLabToPos(cfg.syns, "Synonym")
        left1 == Slice(sent1, 0, st1)
        target1 == Slice(sent1, st1, end1)
        right1 == Slice(sent1, end1, Len(sent1))
        left2 == Slice(sent2, 0, st2)
        target2 == Slice(sent2, st2, end2)
        right2 == Slice(sent2, end2, Len(sent2))
        t0 == <<cls_token>>
        p0 == Repeat(0, 2 * Len(cfg.syns))
        t1 == t0 \o LeftTokens(left1)
        p1 == SetSlot(p0, tgt * 2, Len(t1))
        t2 == t1 \o SpanTokens(cfg, target1)
        p2 == SetSlot(p1, tgt * 2 + 1, Len(t2))
        t3 == t2 \o RightTokens(right1)
        t4 == t3 \o LeftTokens(left2)
        p3 == SetSlot(p2, syn * 2, Len(t4))
        t5 == t4 \o SpanTokens(cfg, target2)
        p4 == SetSlot(p3, syn * 2 + 1, Len(t5))
        t6 == t5 \o RightTokens(right2)
    IN  [tokens |-> t6, positions |-> p4]

\* the id sequence is longer than max_seq_len
TooLong(ids, max_seq_len) == Len(ids) > max_seq_len

\* Truncate that leaves the id sequence as it is
TruncateNot(ids, max_seq_len) == ids

\* input_ids[:max_seq_len]
Truncate(ids, max_seq_len) == Slice(ids, 0, max_seq_len)

\* TooFar with >= in place of >
TooFarAtBound(pos, max_seq_len) == MaxOf(pos) >= max_seq_len - 1

\* TooFar that never holds
TooFarNever(pos, max_seq_len) == FALSE

\* the truncated orientation is discarded
TooFar(pos, max_seq_len) == MaxOf(pos) > max_seq_len - 1

\* the id sequence the record is built from
CutIds(ids, max_seq_len) ==
    IF TooLong(ids, max_seq_len) THEN Truncate(ids, max_seq_len) ELSE ids

\* the pad ids appended to the id sequence
Padding(ids, max_seq_len) ==
    Repeat(ConvertTokensToIds(<<pad_token>>)[1], max_seq_len - Len(ids))

\* the label the record carries
SynLabel(ex) == CASE ex.label = "T" -> 1 [] ex.label = "F" -> 0

\* train_scd is set and the loss is not the regression loss
ScdAssertFails(cfg) == cfg.train_scd /\ cfg.loss # "mse_loss"

\* the WiCFeature2 built from the assembled tokens and position table `a`;
\* `ref` is the example it refers to
Feature(cfg, ex, ref, a) ==
    LET ids == CutIds(ConvertTokensToIds(a.tokens), cfg.max_seq_len)
        padding == Padding(ids, cfg.max_seq_len)
    IN  [input_ids |-> ids \o padding,
         input_mask |-> Repeat(1, Len(ids)) \o Repeat(0, Len(padding)),
         token_type_ids |-> Repeat(0, cfg.max_seq_len),
         syn_label |-> IF cfg.train_scd THEN ex.score ELSE SynLabel(ex),
         positions |-> a.positions,
         example |-> ref]

----------------------------------------------------------------------------
(* __init__, forward and extract_features: the widths of the vectors *)

PoolTypes == {"mean", "max", "first", "combined", "combined_v2", "median"}
MergeTypes == {"featwise_mul", "concat", "featwise_mul_norm", "combined",
               "combined_v2", "dist_l1"}
Losses == {"mse_loss", "crossentropy_loss", "hinge_loss"}

\* s.startswith('combined'), over the option values above
StartsWithCombined(s) == s \in {"combined", "combined_v2"}

\* the values the spec allows
KnownOptions(cfg) ==
    /\ cfg.pool_type \in {"mean", "max", "first", "combined"}
    /\ cfg.target_embeddings \in {"featwise_mul", "concat", "featwise_mul_norm", "combined"}
    /\ cfg.loss \in {"mse_loss", "crossentropy_loss"}

\* the input size of the classification head
InputSize(cfg, hidden_size) ==
    LET s1 == IF cfg.pool_type = "combined" THEN hidden_size * 3 ELSE hidden_size
    IN  IF cfg.target_embeddings = "concat" THEN s1 * 2
        ELSE IF cfg.target_embeddings = "combined" THEN s1 * 3
        ELSE s1

\* the number of classes of self.syn_clf; 0 when no head is set
SynClf(cfg) ==
    IF cfg.loss = "mse_loss" THEN 1
    ELSE IF cfg.loss = "crossentropy_loss" THEN 2
    ELSE 0

\* the model __init__ leaves
Built(cfg, hidden_size) ==
    [built |-> TRUE, hidden_size |-> hidden_size,
     input_size |-> InputSize(cfg, hidden_size), syn_clf |-> SynClf(cfg)]

\* the pool dispatch has a branch for pool_type
PoolBranch(pool_type) ==
    pool_type \in {"mean", "max", "first"} \/ StartsWithCombined(pool_type)

\* the width of emb1 and emb2
PoolWidth(pool_type, hs) == IF StartsWithCombined(pool_type) THEN 3 * hs ELSE hs

\* the merge dispatch assigns merged_feature
MergeBranch(merge_type) ==
    merge_type \in {"featwise_mul", "concat", "featwise_mul_norm"}
        \/ StartsWithCombined(merge_type)

\* the width of merged_feature
MergeWidth(merge_type, w) ==
    IF merge_type = "concat" THEN 2 * w
    ELSE IF StartsWithCombined(merge_type) THEN 3 * w
    ELSE w

----------------------------------------------------------------------------
(* Inputs *)

Char1 == "a"
Char2 == "b"

\* the text before a span: up to MaxTok word characters
LeftTexts(c) == {Repeat(c, n) : n \in 0..MaxTok}
\* the span itself: not empty
TargetTexts(c) == {Repeat(c, n) : n \in 1..MaxTok}
\* the text after a span: empty, white space only, or word characters
RightTexts(c) == {Repeat(c, n) : n \in 0..MaxTok} \cup {<<Space>>}

Labels == {"T"}
Scores == {3}

\* a sentence with its span: [text, start, end]
Sentences(c) ==
    {[text |-> l \o t \o r, start |-> Len(l), end |-> Len(l) + Len(t)] :
        l \in LeftTexts(c), t \in TargetTexts(c), r \in RightTexts(c)}

Examples ==
    {[text_1 |-> a.text, start_1 |-> a.start, end_1 |-> a.end,
      text_2 |-> b.text, start_2 |-> b.start, end_2 |-> b.end,
      label |-> lab, score |-> sc] :
        a \in Sentences(Char1), b \in Sentences(Char2), lab \in Labels, sc \in Scores}

\* the corpora: up to MaxExamples examples, the examples of one corpus alike
Corpora == {Repeat(e, n) : e \in Examples, n \in 0..MaxExamples}

BuilderConfigs ==
    [max_seq_len : 1..MaxSeqLen, symmetric : BOOLEAN, mask_syns : BOOLEAN,
     train_scd : BOOLEAN, loss : {"mse_loss", "crossentropy_loss"}, syns : {<<"Target", "Synonym">>},
     pool_type : {"first"}, target_embeddings : {"concat"}]

\* the configurations __init__ is tried on
ModelConfigs ==
    [max_seq_len : {MaxSeqLen}, symmetric : {FALSE}, mask_syns : {FALSE},
     train_scd : {FALSE}, loss : Losses, syns : {<<"Target", "Synonym">>},
     pool_type : PoolTypes, target_embeddings : MergeTypes]

NoOrient == <<0, 0, <<>>, 0, 0, <<>>>>

Idle == [at |-> "idle"]

----------------------------------------------------------------------------
(* convert_dataset_to_features *)

Init ==
    /\ local_config \in BuilderConfigs
    /\ examples \in Corpora
    /\ pc = "loop"
    /\ ex_index = 0
    /\ i = 0
    /\ orient = NoOrient
    /\ tokens = <<>>
    /\ positions = <<>>
    /\ outcome = "none"
    /\ features = <<>>
    /\ num_too_long_exs = 0
    /\ net = Built(local_config, MaxHidden)
    /\ fwd = Idle

CurEx == examples[ex_index + 1]

InBody == pc = "loop" /\ ex_index < Len(examples)

\* the inner loop moves on; after the second orientation, so does the outer one
Advance ==
    /\ i' = IF i = 0 THEN 1 ELSE 0
    /\ ex_index' = IF i = 0 THEN ex_index ELSE ex_index + 1

\* `continue` at the top of the body
Skip ==
    /\ InBody
    /\ SkipsOrientation(local_config, i)
    /\ orient' = Orientations(CurEx)[i + 1]
    /\ outcome' = "skip"
    /\ Advance
    /\ UNCHANGED <<local_config, examples, pc, tokens, positions, features,
                   num_too_long_exs, net, fwd>>

\* the body up to the truncation test
Assembled ==
    /\ InBody
    /\ ~SkipsOrientation(local_config, i)
    /\ orient' = Orientations(CurEx)[i + 1]
    /\ LET a == Assemble(local_config, Orientations(CurEx)[i + 1])
       IN  /\ tokens' = a.tokens
           /\ positions' = a.positions
    /\ num_too_long_exs' =
         IF TooLong(ConvertTokensToIds(tokens'), local_config.max_seq_len)
         THEN num_too_long_exs + 1 ELSE num_too_long_exs

\* the truncation test discards the orientation
Discards ==
    /\ TooLong(ConvertTokensToIds(tokens'), local_config.max_seq_len)
    /\ TooFar(positions', local_config.max_seq_len)

\* `continue` after truncation: the record is discarded
Drop ==
    /\ Assembled
    /\ Discards
    /\ outcome' = "drop"
    /\ Advance
    /\ UNCHANGED <<local_config, examples, pc, features, net, fwd>>

\* the assert on the loss fails
AssertFail ==
    /\ ScdAssertFails(local_config)
    /\ Assembled
    /\ ~Discards
    /\ outcome' = "assert"
    /\ pc' = "AssertionError"
    /\ UNCHANGED <<local_config, examples, ex_index, i, features, net, fwd>>

\* the record is appended
AppendFeature ==
    /\ ~ScdAssertFails(local_config)
    /\ Assembled
    /\ ~Discards
    /\ features' = Append(features,
                     Feature(local_config, CurEx, ex_index,
                             [tokens |-> tokens', positions |-> positions']))
    /\ outcome' = "append"
    /\ Advance
    /\ UNCHANGED <<local_config, examples, pc, net, fwd>>

\* the report after the loop, and the return
Report ==
    /\ pc = "loop" /\ ex_index = Len(examples)
    /\ pc' = IF Len(features) = 0 THEN "ZeroDivisionError" ELSE "returned"
    /\ UNCHANGED <<local_config, examples, ex_index, i, orient, tokens, positions,
                   outcome, features, num_too_long_exs, net, fwd>>

Next == Skip \/ Drop \/ AssertFail \/ AppendFeature \/ Report

Spec == Init /\ [][Next]_vars

----------------------------------------------------------------------------
(* __init__ and forward *)

InitModel ==
    /\ local_config \in ModelConfigs
    /\ examples = <<>>
    /\ pc = "loop"
    /\ ex_index = 0
    /\ i = 0
    /\ orient = NoOrient
    /\ tokens = <<>>
    /\ positions = <<>>
    /\ outcome = "none"
    /\ features = <<>>
    /\ num_too_long_exs = 0
    /\ net = [built |-> FALSE]
    /\ fwd = Idle

\* XLMRModel.__init__
Construct ==
    /\ ~net.built
    /\ \E hs \in 1..MaxHidden : net' = Built(local_config, hs)
    /\ UNCHANGED <<local_config, builderVars, fwd>>

\* forward up to the call of extract_features, on a batch of bs examples
Forward ==
    /\ net.built /\ fwd.at = "idle"
    /\ \E bs \in 1..MaxBatch :
         fwd' = [at |-> "extract", bs |-> bs, ex_id |-> 0, widths |-> <<>>]
    /\ UNCHANGED <<local_config, builderVars, net>>

InExtract == fwd.at = "extract" /\ fwd.ex_id < fwd.bs

\* extract_features, one example: no branch for pool_type
PoolError ==
    /\ InExtract
    /\ ~PoolBranch(local_config.pool_type)
    /\ fwd' = [fwd EXCEPT !.at = "ValueError"]
    /\ UNCHANGED <<local_config, builderVars, net>>

\* extract_features, one example: merged_feature is read and was never assigned
MergeError ==
    /\ InExtract
    /\ PoolBranch(local_config.pool_type)
    /\ ~MergeBranch(local_config.target_embeddings)
    /\ fwd' = [fwd EXCEPT !.at = "UnboundLocalError"]
    /\ UNCHANGED <<local_config, builderVars, net>>

\* extract_features, one example: the merged vector is appended
Extract ==
    /\ InExtract
    /\ PoolBranch(local_config.pool_type)
    /\ MergeBranch(local_config.target_embeddings)
    /\ fwd' = [fwd EXCEPT
                 !.ex_id = @ + 1,
                 !.widths = Append(@, MergeWidth(local_config.target_embeddings,
                                        PoolWidth(local_config.pool_type, net.hidden_size)))]
    /\ UNCHANGED <<local_config, builderVars, net>>

AfterExtract == fwd.at = "extract" /\ fwd.ex_id = fwd.bs

\* forward: self.syn_clf does not exist
NoHead ==
    /\ AfterExtract
    /\ net.syn_clf = 0
    /\ fwd' = [fwd EXCEPT !.at = "AttributeError"]
    /\ UNCHANGED <<local_config, builderVars, net>>

\* forward: the head's first layer does not take vectors of this width
ShapeError ==
    /\ AfterExtract
    /\ net.syn_clf # 0
    /\ fwd.widths[1] # net.input_size
    /\ fwd' = [fwd EXCEPT !.at = "RuntimeError"]
    /\ UNCHANGED <<local_config, builderVars, net>>

\* forward: the head and the loss
Classify ==
    /\ AfterExtract
    /\ net.syn_clf # 0
    /\ fwd.widths[1] = net.input_size
    /\ fwd' = [at |-> "done", y_size |-> net.syn_clf,
               loss |-> IF net.syn_clf = 1 THEN "MSELoss" ELSE "CrossEntropyLoss"]
    /\ UNCHANGED <<local_config, builderVars, net>>

NextModel ==
    Construct \/ Forward \/ PoolError \/ MergeError \/ Extract
        \/ NoHead \/ ShapeError \/ Classify

SpecModel == InitModel /\ [][NextModel]_vars

----------------------------------------------------------------------------
(* Properties of convert_dataset_to_features *)

L == local_config.max_seq_len

\* the last loop body went past the `continue` at its top
Encoded == outcome \in {"drop", "assert", "append"}

\* the id sequence of the last loop body was longer than max_seq_len
WasTruncated == Len(ConvertTokensToIds(tokens)) > L

\* the (start, end) pair of role `lab` in a position table
Pair(pos, lab) ==
    LET k == SynsLabToPos(local_config.syns, lab)
    IN  <<pos[2 * k + 1], pos[2 * k + 2]>>

PadId == ConvertTokensToIds(<<pad_token>>)[1]

\* C1: in every emitted record both position pairs satisfy
\* 0 <= start <= end <= max_seq_len - 1.
C1_PositionsBelowLimit ==
    \A k \in 1..Len(features) :
        \A lab \in {"Target", "Synonym"} :
            LET pr == Pair(features[k].positions, lab)
            IN  0 <= pr[1] /\ pr[1] <= pr[2] /\ pr[2] <= L - 1

\* C2: in every emitted record input_ids, input_mask and token_type_ids
\* all have exactly max_seq_len entries.
C2_FixedLength ==
    \A k \in 1..Len(features) :
        /\ Len(features[k].input_ids) = L
        /\ Len(features[k].input_mask) = L
        /\ Len(features[k].token_type_ids) = L

\* a record was emitted from a truncated id sequence
C2_Witness == outcome = "append" /\ WasTruncated /\ Len(features) > 0

\* C3: without symmetric mode the one orientation encoded is the role-A-first
\* one (text_1 first); with symmetric mode no orientation is passed over.
C3_RoleAFirst ==
    /\ (Encoded /\ ~local_config.symmetric) =>
          \E k \in 1..Len(examples) : orient = Orientations(examples[k])[1]
    /\ local_config.symmetric => outcome # "skip"

\* C4 as stated: a truncated orientation is discarded exactly when a recorded
\* position is at or beyond max_seq_len - 1.
C4_DropAtOrBeyond ==
    (Encoded /\ WasTruncated) => (outcome = "drop" <=> MaxOf(positions) >= L - 1)

\* C4 amended: a truncated orientation is discarded exactly when a recorded
\* position is beyond max_seq_len - 1; otherwise it passes the truncation test,
\* and its record is appended unless the assert on the loss fails.
C4_DropBeyond ==
    (Encoded /\ WasTruncated) =>
        /\ outcome = "drop" <=> MaxOf(positions) > L - 1
        /\ (outcome # "drop" /\ ~ScdAssertFails(local_config)) => outcome = "append"

\* a truncated orientation whose largest position is max_seq_len - 1 was kept
C4_Witness ==
    outcome = "append" /\ WasTruncated /\ MaxOf(positions) = L - 1

\* C5: a pass that ends with no record returns normally.
C5_EmptyResultReturns ==
    (pc # "loop" /\ ex_index = Len(examples) /\ Len(features) = 0) => pc = "returned"

\* C6: with train_scd and a loss other than mse_loss the pass fails before
\* anything is tokenized or counted, and never returns records.
C6_CheckedBeforeBuilding ==
    ScdAssertFails(local_config) =>
        /\ tokens = <<>> /\ num_too_long_exs = 0
        /\ pc # "returned"

\* the records of example k (0-based), in the order they were appended
RecordsOf(k) == SelectSeq(features, LAMBDA r : r.example = k)

\* the example with its two roles exchanged
SwapRoles(e) ==
    [text_1 |-> e.text_2, start_1 |-> e.start_2, end_1 |-> e.end_2,
     text_2 |-> e.text_1, start_2 |-> e.start_1, end_2 |-> e.end_1,
     label |-> e.label, score |-> e.score]

\* the truncation test does not discard orientation o
Fits(o) ==
    LET a == Assemble(local_config, o)
    IN  ~(Len(a.tokens) > L /\ MaxOf(a.positions) > L - 1)

\* two records agree in input_ids, input_mask and positions
SameEncoding(r, q) ==
    /\ r.input_ids = q.input_ids
    /\ r.input_mask = q.input_mask
    /\ r.positions = q.positions

\* the number of examples whose loop bodies are all done
Finished == ex_index

\* C8: once an example both of whose orientations fit is done, symmetric mode
\* has emitted two records for it and non-symmetric mode one; each of the two
\* is the record of the other orientation of the example with its roles
\* exchanged.
C8_SymmetricPair ==
    \A k \in 1..Finished :
        LET e == examples[k]
            recs == RecordsOf(k - 1)
            o == Orientations(e)
            so == Orientations(SwapRoles(e))
        IN  (Fits(o[1]) /\ Fits(o[2])) =>
              IF local_config.symmetric
              THEN /\ Len(recs) = 2
                   /\ SameEncoding(recs[1],
                        Feature(local_config, SwapRoles(e), k - 1,
                                Assemble(local_config, so[2])))
                   /\ SameEncoding(recs[2],
                        Feature(local_config, SwapRoles(e), k - 1,
                                Assemble(local_config, so[1])))
              ELSE Len(recs) = 1

\* symmetric mode has emitted two different records for an example
C8_Witness ==
    /\ local_config.symmetric /\ Finished >= 1
    /\ Len(RecordsOf(0)) = 2
    /\ RecordsOf(0)[1].input_ids # RecordsOf(0)[2].input_ids
    /\ RecordsOf(0)[1].positions # RecordsOf(0)[2].positions

\* the number of x in a sequence
RECURSIVE Count(_, _)
Count(s, x) == IF s = <<>> THEN 0
               ELSE (IF Head(s) = x THEN 1 ELSE 0) + Count(Tail(s), x)

\* the layout C9 describes, for the orientation o
Layout(o) ==
    LET left1 == Slice(o[3], 0, o[1])
        target1 == Slice(o[3], o[1], o[2])
        right1 == Slice(o[3], o[2], Len(o[3]))
        left2 == Slice(o[6], 0, o[4])
        target2 == Slice(o[6], o[4], o[5])
        right2 == Slice(o[6], o[5], Len(o[6]))
        span(t) == IF local_config.mask_syns
                   THEN [k \in 1..Len(Tokenize(t)) |-> mask_token]
                   ELSE Tokenize(t)
    IN  <<cls_token>> \o Tokenize(left1) \o span(target1) \o Tokenize(right1)
          \o <<sep_token>>
          \o Tokenize(left2) \o span(target2) \o Tokenize(right2)
          \o <<sep_token>>

\* C9: the assembled tokens are start token, left text, first span, right
\* text, separator, left text, second span, right text, separator: exactly
\* two separators, the last token one of them; and each position pair is the
\* index range of its span's tokens.
C9_TwoSeparators ==
    Encoded =>
        /\ tokens = Layout(orient)
        /\ Count(tokens, sep_token) = 2
        /\ tokens[Len(tokens)] = sep_token
        /\ LET p1 == Pair(positions, "Target")
               p2 == Pair(positions, "Synonym")
           IN  /\ Slice(tokens, p1[1], p1[2])
                     = SpanTokens(local_config, Slice(orient[3], orient[1], orient[2]))
               /\ Slice(tokens, p2[1], p2[2])
                     = SpanTokens(local_config, Slice(orient[6], orient[4], orient[5]))

\* the smaller of two numbers
Min(a, b) == IF a < b THEN a ELSE b

\* the mask is n ones and then zeros, the ids are the pad id exactly where the
\* mask is 0, and both spans end within the first n entries
MaskedRecord(r, n) ==
    /\ r.input_mask = [k \in 1..L |-> IF k <= n THEN 1 ELSE 0]
    /\ \A k \in 1..L : (r.input_ids[k] = PadId) <=> (r.input_mask[k] = 0)
    /\ \A lab \in {"Target", "Synonym"} : Pair(r.positions, lab)[2] <= n

\* C10: every emitted record has a mask of n ones followed by zeros, pad ids
\* exactly under the zeros, and span ends <= n; for the record just emitted
\* n = min(number of assembled tokens, max_seq_len).
C10_MaskAndSpans ==
    /\ \A k \in 1..Len(features) :
          MaskedRecord(features[k], Count(features[k].input_mask, 1))
    /\ outcome = "append" =>
          MaskedRecord(features[Len(features)], Min(Len(tokens), L))

\* a padded record whose second span ends at its last real token
C10_Witness ==
    /\ outcome = "append" /\ Len(tokens) < L
    /\ MaxOf(positions) = Len(tokens)
    /\ features[Len(features)].positions = positions

----------------------------------------------------------------------------
(* Properties of __init__ and forward *)

\* C7: an unknown pool_type, target_embeddings or loss is rejected before
\* anything is processed: no model is built from it and no batch is taken.
C7_UnknownOptionRejected ==
    ~KnownOptions(local_config) => (~net.built /\ fwd.at = "idle")

====
